---- MODULE Spec2Model ----
(***************************************************************************)
(* Model of the Tessie integration: homeassistant/components/tessie        *)
(* switch.py (TessieSwitch, traverse_nested_dict, set_nested_dict_value)   *)
(* and sensor.py (TessieCarSensor, traverse_nested_dict).                  *)
(*                                                                         *)
(* Python values are encoded uniformly as TLA+ functions with string       *)
(* domains: a dict is the function from its keys to its values, a scalar   *)
(* (str, bool, None) is the one-field record [leaf |-> <text>].  The key   *)
(* "leaf" is reserved, so a dict never has it.  A key path is a sequence   *)
(* of one-character strings, so that str.split(".") is modelled as code.   *)
(***************************************************************************)
EXTENDS Integers, Sequences, FiniteSets, TLC

VARIABLES
    data,        \* coordinator.data["results"]: the current snapshot
    entity,      \* the switch: its vin and its description
    pendingOn,   \* async_turn_on coroutines suspended at the await
    pendingOff,  \* async_turn_off coroutines suspended at the await
    raceOn,      \* the snapshot was replaced since the pending async_turn_on was called
    raceOff,     \* the same for async_turn_off
    op,          \* the operation that ran last
    args,        \* its arguments
    ret,         \* its outcome
    effects      \* its side effects, in order

vars == <<data, entity, pendingOn, pendingOff, raceOn, raceOff, op, args, ret, effects>>

-----------------------------------------------------------------------------
(* Bounds *)

MaxCars == 2

MaxPending == 1

-----------------------------------------------------------------------------
(* Python values *)

None == [leaf |-> "None"]

Str(s) == [leaf |-> s]

PyTrue == [leaf |-> "True"]

PyFalse == [leaf |-> "False"]

PyBool(b) == IF b THEN PyTrue ELSE PyFalse

EmptyMap == [k \in {} |-> None]

IsMap(v) == "leaf" \notin DOMAIN v

\* d[k] = v on a dict
SetItem(d, k, v) == [j \in DOMAIN d \cup {k} |-> IF j = k THEN v ELSE d[j]]

\* d.get(k) on a dict
Get(d, k) == IF k \in DOMAIN d THEN d[k] ELSE None

\* outcome of a call: a returned value or a raised exception
Return(v) == [out |-> "return", val |-> v]

Raise(e) == [out |-> "raise", val |-> Str(e)]

\* a coroutine suspended at its await
Await == [out |-> "await", val |-> None]

-----------------------------------------------------------------------------
(* key_path.split(".") *)

RECURSIVE Split(_)
Split(s) ==
    IF s = <<>> THEN <<"">>
    ELSE LET r == Split(Tail(s))
         IN  IF Head(s) = "." THEN <<"">> \o r
             ELSE <<Head(s) \o Head(r)>> \o Tail(r)

-----------------------------------------------------------------------------
(* traverse_nested_dict: the loop over keys, value = value.get(key) *)

RECURSIVE TraverseKeys(_, _)
TraverseKeys(value, keys) ==
    IF keys = <<>> THEN Return(value)
    ELSE IF ~IsMap(value) THEN Raise("AttributeError")
    ELSE LET v == Get(value, Head(keys))
         IN  IF v = None THEN Return(None)
             ELSE TraverseKeys(v, Tail(keys))

traverse_nested_dict(data_dict, key_path) ==
    TraverseKeys(data_dict, Split(key_path))

-----------------------------------------------------------------------------
(* set_nested_dict_value: setdefault down keys[:-1], then item assignment. *)
(* The result is the dict after the call and whether the call raised.      *)

\* variant: dict.get(key, {}) in place of setdefault, a created dict is not stored
RECURSIVE SetKeysDetached(_, _, _)
SetKeysDetached(data_dict, keys, value) ==
    IF Len(keys) = 1
    THEN IF IsMap(data_dict)
         THEN [rec |-> SetItem(data_dict, keys[1], value), out |-> "return"]
         ELSE [rec |-> data_dict, out |-> "raise"]
    ELSE IF ~IsMap(data_dict)
         THEN [rec |-> data_dict, out |-> "raise"]
         ELSE IF Head(keys) \notin DOMAIN data_dict
         THEN [rec |-> data_dict, out |-> "return"]
         ELSE LET r == SetKeysDetached(data_dict[Head(keys)], Tail(keys), value)
              IN  [rec |-> SetItem(data_dict, Head(keys), r.rec), out |-> r.out]

RECURSIVE SetKeys(_, _, _)
SetKeys(data_dict, keys, value) ==
    IF Len(keys) = 1
    THEN IF IsMap(data_dict)
         THEN [rec |-> SetItem(data_dict, keys[1], value), out |-> "return"]
         ELSE [rec |-> data_dict, out |-> "raise"]
    ELSE IF ~IsMap(data_dict)
         THEN [rec |-> data_dict, out |-> "raise"]
         ELSE LET child == IF Head(keys) \in DOMAIN data_dict
                           THEN data_dict[Head(keys)] ELSE EmptyMap
                  r == SetKeys(child, Tail(keys), value)
              IN  [rec |-> SetItem(data_dict, Head(keys), r.rec), out |-> r.out]

set_nested_dict_value(data_dict, key_path, value) ==
    SetKeys(data_dict, Split(key_path), value)

-----------------------------------------------------------------------------
(* getCarByVin: linear scan of coordinator.data["results"] *)

\* variant: the scan does not stop at the first match
RECURSIVE ScanCarsLast(_, _, _)
ScanCarsLast(results, i, vin) ==
    IF i > Len(results) THEN None
    ELSE LET rest == ScanCarsLast(results, i + 1, vin)
         IN  IF rest # None THEN rest
             ELSE IF results[i]["vin"] = Str(vin) THEN results[i]
             ELSE None

RECURSIVE ScanCars(_, _, _)
ScanCars(results, i, vin) ==
    IF i > Len(results) THEN None
    ELSE IF results[i]["vin"] = Str(vin) THEN results[i]
    ELSE ScanCars(results, i + 1, vin)

getCarByVin(results, vin) == ScanCars(results, 1, vin)

\* TessieCarSensor.native_value
native_value(results, vin, key) ==
    traverse_nested_dict(getCarByVin(results, vin), key)

\* TessieSwitch.is_on
is_on(results, self) ==
    LET value == traverse_nested_dict(getCarByVin(results, self.vin), self.key)
    IN  IF value.out = "raise" THEN value
        ELSE Return(PyBool(value.val = self.enabled_value))

-----------------------------------------------------------------------------
(* The loop of async_turn_on / async_turn_off after the awaited action:    *)
(* the first vehicle with the switch's vin is mutated, then break.         *)

\* variant: the loop without its break
RECURSIVE UpdateLoopNoBreak(_, _, _, _, _)
UpdateLoopNoBreak(results, i, vin, key, value) ==
    IF i > Len(results)
    THEN [results |-> results, out |-> "return", effects |-> <<>>]
    ELSE IF results[i]["vin"] = Str(vin)
    THEN LET s == set_nested_dict_value(results[i], key, value)
             rest == UpdateLoopNoBreak([results EXCEPT ![i] = s.rec], i + 1, vin, key, value)
         IN  IF s.out = "raise"
             THEN [results |-> [results EXCEPT ![i] = s.rec],
                   out |-> s.out, effects |-> <<"set">>]
             ELSE [results |-> rest.results, out |-> rest.out, effects |-> <<"set">>]
    ELSE UpdateLoopNoBreak(results, i + 1, vin, key, value)

RECURSIVE UpdateLoop(_, _, _, _, _)
UpdateLoop(results, i, vin, key, value) ==
    IF i > Len(results)
    THEN [results |-> results, out |-> "return", effects |-> <<>>]
    ELSE IF results[i]["vin"] = Str(vin)
    THEN LET s == set_nested_dict_value(results[i], key, value)
         IN  [results |-> [results EXCEPT ![i] = s.rec],
              out |-> s.out, effects |-> <<"set">>]
    ELSE UpdateLoop(results, i + 1, vin, key, value)

-----------------------------------------------------------------------------
(* Universe of inputs *)

Vins == {"v1", "v2"}

\* the vin the switch entity was constructed with
SwitchVin == "v1"

KeyPaths == { <<"a">>, <<"a", ".", "b">>, <<"a", ".", "b", ".", "c">> }

Values == {None, Str("Charging"), Str("Stopped")}

Car(vin, body) == SetItem(body, "vin", Str(vin))

Bodies ==
    { EmptyMap,
      [a |-> Str("Stopped")],
      [a |-> None],
      [a |-> [b |-> Str("Stopped")]],
      [a |-> [b |-> Str("Charging"), c |-> Str("Stopped")]],
      [a |-> [b |-> [c |-> Str("Stopped")]]] }

Records ==
    { Car(SwitchVin, b) : b \in Bodies } \cup { Car("v2", [a |-> [b |-> Str("Stopped")]]) }

RECURSIVE SeqsUpTo(_, _)
SeqsUpTo(S, n) ==
    IF n = 0 THEN { <<>> }
    ELSE LET shorter == SeqsUpTo(S, n - 1)
         IN  shorter \cup { Append(q, x) : q \in { p \in shorter : Len(p) = n - 1 }, x \in S }

Snapshots == SeqsUpTo(Records, MaxCars)

\* the Records the coordinator's polls deliver in the switch's state machine
PolledRecords ==
    { Car(SwitchVin, b) : b \in { EmptyMap,
                                  [a |-> Str("Stopped")],
                                  [a |-> [b |-> Str("Stopped"), c |-> Str("Stopped")]] } }
    \cup { Car("v2", [a |-> [b |-> Str("Stopped")]]) }

PolledSnapshots == SeqsUpTo(PolledRecords, MaxCars)

\* TessieSwitchEntityDescription: enabled_func / disabled_func are "set" or
\* None (TRUE / FALSE here), enabled_value / disabled_value are str or None.
Bindings ==
    { [enabled_func |-> TRUE,  enabled_value |-> Str("Charging"),
       disabled_func |-> TRUE,  disabled_value |-> Str("Stopped")],
      [enabled_func |-> FALSE, enabled_value |-> None,
       disabled_func |-> FALSE, disabled_value |-> None],
      [enabled_func |-> TRUE,  enabled_value |-> None,
       disabled_func |-> FALSE, disabled_value |-> Str("Stopped")],
      [enabled_func |-> FALSE, enabled_value |-> Str("Charging"),
       disabled_func |-> TRUE,  disabled_value |-> Str("Charging")] }

Entities ==
    { [vin |-> SwitchVin, key |-> k,
       enabled_func |-> b.enabled_func, enabled_value |-> b.enabled_value,
       disabled_func |-> b.disabled_func, disabled_value |-> b.disabled_value]
      : k \in KeyPaths, b \in Bindings }

NoArgs == [d |-> None, key |-> <<>>, vin |-> "", value |-> None]

-----------------------------------------------------------------------------
(* The switch entity and the coordinator *)

Init ==
    /\ data \in { s \in PolledSnapshots : getCarByVin(s, SwitchVin) # None }
    /\ entity \in Entities
    /\ pendingOn = 0
    /\ pendingOff = 0
    /\ raceOn = FALSE
    /\ raceOff = FALSE
    /\ op = "setup"
    /\ args = NoArgs
    /\ ret = Return(None)
    /\ effects = <<>>

\* the coordinator's poll replaces the snapshot wholesale
Poll ==
    /\ \E s \in PolledSnapshots : data' = s
    /\ op' = "poll"
    /\ ret' = Return(None)
    /\ effects' = <<>>
    /\ raceOn' = (pendingOn > 0)
    /\ raceOff' = (pendingOff > 0)
    /\ UNCHANGED <<entity, pendingOn, pendingOff, args>>

\* variant: the check of enabled_func is missing
TurnOnCallUnchecked ==
    /\ pendingOn < MaxPending
    /\ op' = "turn_on"
    /\ ret' = Await
    /\ effects' = <<"call">>
    /\ pendingOn' = pendingOn + 1
    /\ raceOn' = FALSE
    /\ UNCHANGED <<data, entity, pendingOff, raceOff, args>>

\* async_turn_on up to the await
TurnOnCall ==
    /\ pendingOn < MaxPending
    /\ op' = "turn_on"
    /\ IF entity.enabled_func = FALSE
       THEN /\ ret' = Return(None)
            /\ effects' = <<>>
            /\ UNCHANGED <<pendingOn, raceOn>>
       ELSE /\ ret' = Await
            /\ effects' = <<"call">>
            /\ pendingOn' = pendingOn + 1
            /\ raceOn' = FALSE
    /\ UNCHANGED <<data, entity, pendingOff, raceOff, args>>

\* variant: the state is written before the cache is mutated
TurnOnDoneWriteFirst ==
    /\ pendingOn > 0
    /\ LET u == UpdateLoop(data, 1, entity.vin, entity.key, entity.enabled_value)
       IN  /\ data' = u.results
           /\ ret' = IF u.out = "raise" THEN Raise("TypeError") ELSE Return(None)
           /\ effects' = <<"notify">> \o u.effects
    /\ pendingOn' = pendingOn - 1
    /\ op' = "turn_on_done"
    /\ UNCHANGED <<entity, pendingOff, raceOn, raceOff, args>>

\* variant: the list fetched before the await is the one mutated, so after
\* a poll in between the current snapshot is not touched
TurnOnDoneStale ==
    /\ pendingOn > 0
    /\ LET u == UpdateLoop(data, 1, entity.vin, entity.key, entity.enabled_value)
       IN  /\ data' = IF raceOn THEN data ELSE u.results
           /\ ret' = IF u.out = "raise" /\ ~raceOn THEN Raise("TypeError") ELSE Return(None)
           /\ effects' = IF u.out = "raise" /\ ~raceOn THEN u.effects
                         ELSE u.effects \o <<"notify">>
    /\ pendingOn' = pendingOn - 1
    /\ op' = "turn_on_done"
    /\ UNCHANGED <<entity, pendingOff, raceOn, raceOff, args>>

\* the awaited enabled_func returned: mutate the cache, write state
TurnOnDone ==
    /\ pendingOn > 0
    /\ LET u == UpdateLoop(data, 1, entity.vin, entity.key, entity.enabled_value)
       IN  /\ data' = u.results
           /\ ret' = IF u.out = "raise" THEN Raise("TypeError") ELSE Return(None)
           /\ effects' = IF u.out = "raise" THEN u.effects
                         ELSE u.effects \o <<"notify">>
    /\ pendingOn' = pendingOn - 1
    /\ op' = "turn_on_done"
    /\ UNCHANGED <<entity, pendingOff, raceOn, raceOff, args>>

\* variant: the exception of the action is swallowed and the handler goes on
TurnOnFailedSwallowed ==
    /\ pendingOn > 0
    /\ LET u == UpdateLoop(data, 1, entity.vin, entity.key, entity.enabled_value)
       IN  /\ data' = u.results
           /\ ret' = IF u.out = "raise" THEN Raise("TypeError") ELSE Return(None)
           /\ effects' = IF u.out = "raise" THEN u.effects
                         ELSE u.effects \o <<"notify">>
    /\ pendingOn' = pendingOn - 1
    /\ op' = "turn_on_failed"
    /\ UNCHANGED <<entity, pendingOff, raceOn, raceOff, args>>

\* the awaited enabled_func raised: the exception leaves async_turn_on
TurnOnFailed ==
    /\ pendingOn > 0
    /\ pendingOn' = pendingOn - 1
    /\ op' = "turn_on_failed"
    /\ ret' = Raise("ActionError")
    /\ effects' = <<>>
    /\ UNCHANGED <<data, entity, pendingOff, raceOn, raceOff, args>>

\* async_turn_off up to the await
TurnOffCall ==
    /\ pendingOff < MaxPending
    /\ op' = "turn_off"
    /\ IF entity.disabled_func = FALSE
       THEN /\ ret' = Return(None)
            /\ effects' = <<>>
            /\ UNCHANGED <<pendingOff, raceOff>>
       ELSE /\ ret' = Await
            /\ effects' = <<"call">>
            /\ pendingOff' = pendingOff + 1
            /\ raceOff' = FALSE
    /\ UNCHANGED <<data, entity, pendingOn, raceOn, args>>

\* the awaited disabled_func returned
TurnOffDone ==
    /\ pendingOff > 0
    /\ LET u == UpdateLoop(data, 1, entity.vin, entity.key, entity.disabled_value)
       IN  /\ data' = u.results
           /\ ret' = IF u.out = "raise" THEN Raise("TypeError") ELSE Return(None)
           /\ effects' = IF u.out = "raise" THEN u.effects
                         ELSE u.effects \o <<"notify">>
    /\ pendingOff' = pendingOff - 1
    /\ op' = "turn_off_done"
    /\ UNCHANGED <<entity, pendingOn, raceOn, raceOff, args>>

\* the awaited disabled_func raised
TurnOffFailed ==
    /\ pendingOff > 0
    /\ pendingOff' = pendingOff - 1
    /\ op' = "turn_off_failed"
    /\ ret' = Raise("ActionError")
    /\ effects' = <<>>
    /\ UNCHANGED <<data, entity, pendingOn, raceOn, raceOff, args>>

Next ==
    \/ Poll
    \/ TurnOnCall
    \/ TurnOnDone
    \/ TurnOnFailed
    \/ TurnOffCall
    \/ TurnOffDone
    \/ TurnOffFailed

Spec == Init /\ [][Next]_vars

-----------------------------------------------------------------------------
(* The read side and the two helpers, applied to inputs drawn from the     *)
(* universe: any snapshot a poll can have installed, any description.      *)

InitRead ==
    /\ data \in Snapshots
    /\ entity \in Entities
    /\ pendingOn = 0
    /\ pendingOff = 0
    /\ raceOn = FALSE
    /\ raceOff = FALSE
    /\ op = "setup"
    /\ args = NoArgs
    /\ ret = Return(None)
    /\ effects = <<>>

Range(f) == { f[i] : i \in DOMAIN f }

\* getCarByVin(vin)
GetCarByVin ==
    /\ \E vin \in Vins \cup {"XYZ"} :
          /\ args' = [NoArgs EXCEPT !.vin = vin]
          /\ ret' = Return(getCarByVin(data, vin))
    /\ op' = "getCarByVin"
    /\ UNCHANGED <<data, entity, pendingOn, pendingOff, raceOn, raceOff, effects>>

\* the host reads TessieCarSensor.native_value
NativeValue ==
    /\ \E vin \in Vins, key \in KeyPaths :
          /\ args' = [NoArgs EXCEPT !.vin = vin, !.key = key]
          /\ ret' = native_value(data, vin, key)
    /\ op' = "native_value"
    /\ UNCHANGED <<data, entity, pendingOn, pendingOff, raceOn, raceOff, effects>>

\* the host reads TessieSwitch.is_on
IsOn ==
    /\ args' = NoArgs
    /\ ret' = is_on(data, entity)
    /\ op' = "is_on"
    /\ UNCHANGED <<data, entity, pendingOn, pendingOff, raceOn, raceOff, effects>>

\* traverse_nested_dict on a Record of the snapshot
Traverse ==
    /\ \E d \in Range(data), key \in KeyPaths :
          /\ args' = [NoArgs EXCEPT !.d = d, !.key = key]
          /\ ret' = traverse_nested_dict(d, key)
    /\ op' = "traverse_nested_dict"
    /\ UNCHANGED <<data, entity, pendingOn, pendingOff, raceOn, raceOff, effects>>

\* set_nested_dict_value on a copy of a Record of the snapshot; ret.val is
\* the Record as the call leaves it
SetNested ==
    /\ \E d \in Range(data), key \in KeyPaths, value \in Values :
          /\ args' = [NoArgs EXCEPT !.d = d, !.key = key, !.value = value]
          /\ ret' = LET s == set_nested_dict_value(d, key, value)
                    IN  [out |-> s.out, val |-> s.rec]
    /\ op' = "set_nested_dict_value"
    /\ UNCHANGED <<data, entity, pendingOn, pendingOff, raceOn, raceOff, effects>>

NextRead ==
    \/ GetCarByVin
    \/ NativeValue
    \/ IsOn
    \/ Traverse
    \/ SetNested

SpecRead == InitRead /\ [][NextRead]_vars

-----------------------------------------------------------------------------
(* What the specification calls the Path Accessor: the value a Path        *)
(* resolves to in a Record, absence (None) when the Record is absent, a    *)
(* segment is missing or a value on the way is not a map.                  *)

RECURSIVE Resolve(_, _)
Resolve(d, keys) ==
    IF keys = <<>> THEN d
    ELSE IF ~IsMap(d) THEN None
    ELSE IF Head(keys) \notin DOMAIN d THEN None
    ELSE Resolve(d[Head(keys)], Tail(keys))

\* every value the mutator has to step through is missing or a map
RECURSIVE IntermediatesAreMaps(_, _)
IntermediatesAreMaps(d, keys) ==
    \/ Len(keys) <= 1
    \/ Head(keys) \notin DOMAIN d
    \/ /\ IsMap(d[Head(keys)])
       /\ IntermediatesAreMaps(d[Head(keys)], Tail(keys))

Matches(results, vin) == { i \in 1..Len(results) : results[i]["vin"] = Str(vin) }

FirstMatch(results, vin) ==
    CHOOSE i \in Matches(results, vin) : \A j \in Matches(results, vin) : i <= j

\* old and new agree everywhere except along the path keys
RECURSIVE SameOffPath(_, _, _)
SameOffPath(old, new, keys) ==
    /\ IsMap(new)
    /\ DOMAIN new \ {Head(keys)} = DOMAIN old \ {Head(keys)}
    /\ \A k \in DOMAIN old \ {Head(keys)} : new[k] = old[k]
    /\ (Len(keys) > 1 /\ Head(keys) \in DOMAIN old /\ IsMap(old[Head(keys)]))
          => /\ Head(keys) \in DOMAIN new
             /\ SameOffPath(old[Head(keys)], new[Head(keys)], Tail(keys))

-----------------------------------------------------------------------------
(* Claims *)

\* C1 (as stated): traverse_nested_dict never raises on a Record: it
\* returns, and when the Path does not resolve (a segment is missing or a
\* value before the last segment is not a map) it returns None.
C1_NeverRaises ==
    op = "traverse_nested_dict" =>
        /\ ret.out = "return"
        /\ (Resolve(args.d, Split(args.key)) = None => ret = Return(None))

\* C2 (as stated): for any Record, Path and value, set_nested_dict_value
\* followed by traverse_nested_dict on the same Path returns the value.
C2_RoundTripAnyRecord ==
    op = "set_nested_dict_value" =>
        /\ ret.out = "return"
        /\ traverse_nested_dict(ret.val, args.key) = Return(args.value)

\* C2 (amended): the round trip holds for every Record in which each
\* intermediate segment of the Path is missing or holds a map.
C2_RoundTrip ==
    (op = "set_nested_dict_value" /\ IntermediatesAreMaps(args.d, Split(args.key))) =>
        /\ ret.out = "return"
        /\ traverse_nested_dict(ret.val, args.key) = Return(args.value)

C2_Witness ==
    /\ op = "set_nested_dict_value"
    /\ args.key = <<"a", ".", "b", ".", "c">>
    /\ "a" \notin DOMAIN args.d
    /\ args.value = Str("Charging")
    /\ ret.val["a"]["b"]["c"] = Str("Charging")

C4_FailureLeavesSnapshot ==
    [][ (op' \in {"turn_on_failed", "turn_off_failed"}) =>
            /\ data' = data
            /\ effects' = <<>>
            /\ ret'.out = "raise"
            /\ pendingOn' <= pendingOn
            /\ pendingOff' <= pendingOff
      ]_vars

C4_Witness ==
    /\ op = "turn_on_failed"
    /\ ret.out = "raise"
    /\ getCarByVin(data, entity.vin) # None
    /\ entity.enabled_value = Str("Charging")
    /\ traverse_nested_dict(getCarByVin(data, entity.vin), entity.key)
          = Return(Str("Stopped"))

\* C5 (as stated): when a poll replaced the snapshot while the transition
\* was in flight, the optimistic mutation is lost: when the transition
\* finishes the Path still holds the value the poll supplied, not the
\* configured value.
C5_MutationLost ==
    [][ /\ (op = "poll" /\ op' = "turn_on_done"
              /\ native_value(data, entity.vin, entity.key) # Return(entity.enabled_value))
           => native_value(data', entity'.vin, entity'.key)
                 = native_value(data, entity.vin, entity.key)
        /\ (op = "poll" /\ op' = "turn_off_done"
              /\ native_value(data, entity.vin, entity.key) # Return(entity.disabled_value))
           => native_value(data', entity'.vin, entity'.key)
                 = native_value(data, entity.vin, entity.key)
      ]_vars

\* C5 (amended): when a poll replaced the snapshot while the transition was
\* in flight, the mutation is applied to the replacement: if the transition
\* then completes without raising and the current snapshot has a Record with
\* the switch's vin, its Path holds the configured value, and the snapshot
\* was changed if the Path held another value.
C5_MutationAppliedToReplacement ==
    [][ /\ (raceOn /\ op' = "turn_on_done" /\ ret'.out = "return"
              /\ getCarByVin(data, entity.vin) # None)
           => /\ native_value(data', entity'.vin, entity'.key)
                    = Return(entity'.enabled_value)
              /\ (native_value(data, entity.vin, entity.key)
                    # Return(entity.enabled_value) => data' # data)
        /\ (raceOff /\ op' = "turn_off_done" /\ ret'.out = "return"
              /\ getCarByVin(data, entity.vin) # None)
           => /\ native_value(data', entity'.vin, entity'.key)
                    = Return(entity'.disabled_value)
              /\ (native_value(data, entity.vin, entity.key)
                    # Return(entity.disabled_value) => data' # data)
      ]_vars

\* async_turn_on finished on a snapshot a poll installed while it was
\* awaiting, and the Record holds the configured value
C5_Witness ==
    /\ op = "turn_on_done"
    /\ raceOn
    /\ pendingOn = 0
    /\ ret = Return(None)
    /\ entity.enabled_value = Str("Charging")
    /\ entity.key = <<"a", ".", "b">>
    /\ Len(data) = 1
    /\ data[1] = Car(SwitchVin, [a |-> [b |-> Str("Charging")]])

\* C6 (as stated): is_on returns True exactly when the Path Accessor value
\* equals enabled_value, and False whenever that value is absent.
C6_IsOnIffEqual ==
    op = "is_on" =>
        LET value == Resolve(getCarByVin(data, entity.vin), Split(entity.key))
        IN  /\ ret.out = "return"
            /\ (ret.val = PyTrue) <=> (value = entity.enabled_value)
            /\ (value = None => ret.val = PyFalse)

\* C7 (as stated): native_value raises nothing and returns None when no
\* Record has the sensor's vin or the Path is missing in the Record.
C7_NativeValueAbsent ==
    op = "native_value" =>
        LET car == getCarByVin(data, args.vin)
        IN  (car = None \/ Resolve(car, Split(args.key)) = None)
                => ret = Return(None)

\* C8: with enabled_func unset async_turn_on returns at once: no remote
\* call, no change of the snapshot, no state write, no exception; the same
\* for async_turn_off with disabled_func unset.
C8_UnsetActionNoOp ==
    [][ /\ (op' = "turn_on" /\ entity.enabled_func = FALSE)
           => /\ data' = data
              /\ effects' = <<>>
              /\ ret' = Return(None)
              /\ pendingOn' = pendingOn
        /\ (op' = "turn_off" /\ entity.disabled_func = FALSE)
           => /\ data' = data
              /\ effects' = <<>>
              /\ ret' = Return(None)
              /\ pendingOff' = pendingOff
      ]_vars

C8_Witness ==
    /\ op = "turn_on"
    /\ entity.enabled_func = FALSE
    /\ ret = Return(None)
    /\ getCarByVin(data, entity.vin) # None

\* C9: getCarByVin returns the first Record, in snapshot order, whose vin
\* equals the argument, and None when there is none.
C9_FirstMatch ==
    op = "getCarByVin" =>
        IF Matches(data, args.vin) = {}
        THEN ret = Return(None)
        ELSE ret = Return(data[FirstMatch(data, args.vin)])

\* two Records share the vin and differ; the first one is returned
C9_Witness ==
    /\ op = "getCarByVin"
    /\ Cardinality(Matches(data, args.vin)) > 1
    /\ \E i \in Matches(data, args.vin) : data[i] # data[FirstMatch(data, args.vin)]
    /\ ret = Return(data[FirstMatch(data, args.vin)])

\* C10: a completed (awaited action returned) async_turn_on / async_turn_off
\* keeps the number and order of Records, changes no Record but the first
\* one with the switch's vin, and in that one nothing off the Path; with no
\* matching Record the snapshot is unchanged and the state is still written.
C10_Frame ==
    [][ (op' \in {"turn_on_done", "turn_off_done"}) =>
            /\ Len(data') = Len(data)
            /\ IF Matches(data, entity.vin) = {}
               THEN /\ data' = data
                    /\ effects' = <<"notify">>
               ELSE LET i == FirstMatch(data, entity.vin)
                    IN  /\ \A j \in 1..Len(data) : j # i => data'[j] = data[j]
                        /\ SameOffPath(data[i], data'[i], Split(entity.key))
      ]_vars

\* the second of two Records with the switch's vin is left as polled while
\* the first one was mutated
C10_Witness ==
    /\ op = "turn_on_done"
    /\ ret = Return(None)
    /\ entity.key = <<"a", ".", "b">>
    /\ entity.enabled_value = Str("Charging")
    /\ Len(data) = 2
    /\ data[1] = Car(SwitchVin, [a |-> [b |-> Str("Charging")]])
    /\ data[2] = Car(SwitchVin, [a |-> [b |-> Str("Stopped"), c |-> Str("Stopped")]])

====
